---- MODULE Spec2Model ----
(***************************************************************************)
(* Model of the lookuply search-api: the FastAPI handlers /api/search,     *)
(* /api/summarize and /chat, the services behind them and the two backend  *)
(* clients (search index, language model).                                 *)
(*                                                                         *)
(* Text is a sequence of tokens.  A token is one character (" ", "q", "c") *)
(* or one fixed piece of a literal of the source; concatenation is \o.     *)
(* Scores are integers in units of 1/ScoreScale, so 0..ScoreScale is the   *)
(* closed range [0.0, 1.0].                                                *)
(***************************************************************************)
EXTENDS Integers, Sequences, FiniteSets, TLC

(* ------------------------------ bounds --------------------------------- *)
NumDocs == 2
MaxHits == 2
ScoreScale == 1
MaxSourceIds == 2
MaxChatHits == 4

(* -------------------------- program constants -------------------------- *)
QueryMinLen == 1
QueryMaxLen == 500
LimitMin == 1
LimitMax == 50
LimitDefault == 10
SnippetMaxLength == 200
ContextContentMax == 500
\* variant: the re-fetch asks for a page of the default size
RefetchLimit_Default == LimitDefault

RefetchLimit == 100
ChatMinLen == 2
ChatMaxLen == 500
ChatLimitDefault == 5
ChatTopSources == 3
ChatSnippetMax == 200

(* ------------------------------- text ---------------------------------- *)
L(s) == <<s>>

Rep(c, n) == [i \in 1..n |-> c]

NL == L("\n")

Min(a, b) == IF a < b THEN a ELSE b

\* s[:n] of Python
Prefix(s, n) == SubSeq(s, 1, Min(n, Len(s)))

\* needle in haystack, as `in` on Python strings
Contains(hay, needle) ==
    \E i \in 0..(Len(hay) - Len(needle)) :
        SubSeq(hay, i + 1, i + Len(needle)) = needle

\* the whitespace characters of the model's texts
IsSpace(c) == c \in {" ", "\n", "\t"}

\* str.strip(): leading and trailing whitespace removed
RECURSIVE lstrip(_)
lstrip(s) == IF s # <<>> /\ IsSpace(Head(s)) THEN lstrip(Tail(s)) ELSE s

RECURSIVE rstrip(_)
rstrip(s) ==
    IF s # <<>> /\ IsSpace(s[Len(s)]) THEN rstrip(SubSeq(s, 1, Len(s) - 1)) ELSE s

strip(s) == rstrip(lstrip(s))

\* sep.join(parts)
RECURSIVE Join(_, _)
Join(parts, sep) ==
    IF parts = <<>> THEN <<>>
    ELSE IF Len(parts) = 1 THEN parts[1]
    ELSE parts[1] \o sep \o Join(Tail(parts), sep)

\* the concatenation of a sequence of sequences
RECURSIVE Flatten(_)
Flatten(ss) == IF ss = <<>> THEN <<>> ELSE Head(ss) \o Flatten(Tail(ss))

\* the sequences over S of length 0..n
SeqsUpTo(S, n) == UNION {[1..k -> S] : k \in 0..n}

(* ------------------------ the indexed documents ------------------------ *)
Docs == 1..NumDocs

\* lengths of the documents' contents, around the two cut points of the code
ContentLens == <<SnippetMaxLength + 1, SnippetMaxLength, ContextContentMax + 1, 0>>

DocId(d) == ToString(d)
DocTitle(d) == <<"Title", ToString(d)>>
DocUrl(d) == <<"https://example.com/", ToString(d)>>
DocContent(d) == Rep("c", ContentLens[((d - 1) % Len(ContentLens)) + 1])

Scores == (0 - 1)..(ScoreScale + 1)

\* what the index can answer to one query: an error, or a list of raw hits
Exceptions ==
    { [type |-> "MeilisearchCommunicationError", text |-> L("connection refused http://meili:7700")],
      [type |-> "MeilisearchApiError", text |-> L("index pages not found")] }

GenExceptions ==
    { [type |-> "ReadTimeout", text |-> L("timed out")],
      [type |-> "HTTPStatusError", text |-> L("500 from http://ollama:11434/api/generate")] }

RawHits == [doc : Docs, score : Scores]

NoReply == [kind |-> "none"]

IndexReplies ==
    {[kind |-> "hits", hits |-> h] : h \in SeqsUpTo(RawHits, MaxHits)}
    \cup {[kind |-> "error", exc |-> e] : e \in Exceptions}

GenTexts == { <<>>, <<" ">>, <<"a">>, <<" ", "a", "\n">> }

GenReplies ==
    {[kind |-> "text", text |-> t] : t \in GenTexts}
    \cup {[kind |-> "error", exc |-> e] : e \in GenExceptions}

(* --------------------- results of a call that may raise ---------------- *)
NoExc == [type |-> "", text |-> <<>>]

Ok(v, calls, logs) ==
    [raised |-> FALSE, awaiting |-> FALSE, exc |-> NoExc, value |-> v,
     calls |-> calls, logs |-> logs]

Raise(e, calls, logs) ==
    [raised |-> TRUE, awaiting |-> FALSE, exc |-> e, value |-> <<>>,
     calls |-> calls, logs |-> logs]

\* the coroutine is suspended in `await self.ollama.generate(...)`
Await(calls, logs) ==
    [raised |-> FALSE, awaiting |-> TRUE, exc |-> NoExc, value |-> <<>>,
     calls |-> calls, logs |-> logs]

LogLine(level, msg) == [level |-> level, msg |-> msg]

(* ------------------------------ models.py ------------------------------ *)
Languages == {"en", "sk", "de"}

\* variant: the validator returns the query as it came
query_not_empty_NoStrip(v) ==
    IF v = <<>> \/ strip(v) = <<>>
    THEN [valid |-> FALSE, value |-> v]
    ELSE [valid |-> TRUE, value |-> v]

\* the field validator of SearchRequest.query and SummarizeRequest.query
query_not_empty(v) ==
    IF v = <<>> \/ strip(v) = <<>>
    THEN [valid |-> FALSE, value |-> v]
    ELSE [valid |-> TRUE, value |-> strip(v)]

\* Field(..., min_length=1, max_length=500), then the field validator
QueryField(v) ==
    IF Len(v) < QueryMinLen \/ Len(v) > QueryMaxLen
    THEN [valid |-> FALSE, value |-> v]
    ELSE query_not_empty(v)

LanguageField(l) == l \in Languages

\* variant: limit without ge / le
LimitField_NoRange(raw) ==
    IF ~raw.has_limit THEN [valid |-> TRUE, value |-> LimitDefault]
    ELSE [valid |-> TRUE, value |-> raw.limit]

LimitField(raw) ==
    IF ~raw.has_limit THEN [valid |-> TRUE, value |-> LimitDefault]
    ELSE [valid |-> raw.limit >= LimitMin /\ raw.limit <= LimitMax, value |-> raw.limit]

SearchRequest(raw) ==
    [valid |-> QueryField(raw.query).valid /\ LanguageField(raw.language)
                 /\ LimitField(raw).valid,
     query |-> QueryField(raw.query).value,
     language |-> raw.language,
     limit |-> LimitField(raw).value]

\* variant: source_ids without min_length
SourceIdsField_AllowEmpty(ids) == TRUE

SourceIdsField(ids) == Len(ids) >= 1

SummarizeRequest(raw) ==
    [valid |-> QueryField(raw.query).valid /\ LanguageField(raw.language)
                 /\ SourceIdsField(raw.source_ids),
     query |-> QueryField(raw.query).value,
     language |-> raw.language,
     query_id |-> raw.query_id,
     source_ids |-> raw.source_ids]

\* variant: the score is not validated
RelevanceScoreField_Any(score) == TRUE

\* Source.relevance_score: Field(..., ge=0.0, le=1.0)
RelevanceScoreField(score) == score >= 0 /\ score <= ScoreScale

Source(result, snippet) ==
    [id |-> result.id, title |-> result.title, url |-> result.url,
     snippet |-> snippet, relevance_score |-> result.score]

ValidationError ==
    [type |-> "ValidationError",
     text |-> L("1 validation error for Source relevance_score")]

SearchResponse(sources, uuid) == [sources |-> sources, query_id |-> uuid]

SummarizeResponse(answer, query_id) == [answer |-> answer, query_id |-> query_id]

\* str(uuid4()): a fresh non-empty string
Uuids == {"uuid-1", "uuid-2"}

(* ------------------------- meilisearch_client.py ----------------------- *)
SearchResult(hit) ==
    [id |-> DocId(hit.doc), title |-> DocTitle(hit.doc),
     content |-> DocContent(hit.doc), url |-> DocUrl(hit.doc), score |-> hit.score]

SearchCall(query, limit) == [svc |-> "search", query |-> query, limit |-> limit]

\* MeilisearchClient.search: one call to the index; an error of the index
\* propagates, every hit of the answer becomes a SearchResult
MeilisearchClient_search(query, limit, reply) ==
    IF reply.kind = "error"
    THEN Raise(reply.exc, <<SearchCall(query, limit)>>, <<>>)
    ELSE Ok([i \in 1..Len(reply.hits) |-> SearchResult(reply.hits[i])],
            <<SearchCall(query, limit)>>, <<>>)

HealthCall == [svc |-> "health"]

\* what client.health() can answer: an error, or a body whose status may be
\* "available", something else, or absent ("")
HealthReplies ==
    {[kind |-> "health", status |-> st] : st \in {"available", "unavailable", ""}}
    \cup {[kind |-> "error", exc |-> e] : e \in Exceptions}

\* variant: without the except clause
health_check_Raises(reply) ==
    IF reply.kind = "error" THEN Raise(reply.exc, <<HealthCall>>, <<>>)
    ELSE Ok(reply.status = "available", <<HealthCall>>, <<>>)

\* MeilisearchClient.health_check
health_check(reply) ==
    IF reply.kind = "error" THEN Ok(FALSE, <<HealthCall>>, <<>>)
    ELSE Ok(reply.status = "available", <<HealthCall>>, <<>>)

(* ---------------------------- ollama_client.py -------------------------- *)
GenCall(prompt, system) == [svc |-> "generate", prompt |-> prompt, system |-> system]

\* OllamaClient.generate, once the backend has answered
OllamaClient_generate(reply) ==
    IF reply.kind = "error" THEN Raise(reply.exc, <<>>, <<>>)
    ELSE Ok(reply.text, <<>>, <<>>)

(* --------------------------- search_service.py ------------------------- *)
\* variant: the ellipsis is appended but the content is not cut
extract_snippet_NoCut(content) ==
    IF content = <<>> THEN <<>>
    ELSE IF Len(content) > SnippetMaxLength
         THEN content \o <<".", ".", ".">>
         ELSE content

extract_snippet(content) ==
    IF content = <<>> THEN <<>>
    ELSE IF Len(content) > SnippetMaxLength
         THEN Prefix(content, SnippetMaxLength) \o <<".", ".", ".">>
         ELSE content

\* list.sort(key=relevance_score, reverse=True): stable, descending
RECURSIVE InsertDesc(_, _)
InsertDesc(x, s) ==
    IF s = <<>> THEN <<x>>
    ELSE IF Head(s).relevance_score >= x.relevance_score
         THEN <<Head(s)>> \o InsertDesc(x, Tail(s))
         ELSE <<x>> \o s

\* variant: the sources stay in the order of the index
SortByScoreDesc_NoSort(s) == s

RECURSIVE SortByScoreDesc(_)
SortByScoreDesc(s) ==
    IF s = <<>> THEN <<>>
    ELSE InsertDesc(s[Len(s)], SortByScoreDesc(SubSeq(s, 1, Len(s) - 1)))

SearchService_search(query, language, limit, reply) ==
    LET r == MeilisearchClient_search(query, limit, reply)
        results == r.value
        sources == [i \in 1..Len(results) |->
                       Source(results[i], extract_snippet(results[i].content))]
        errLog(e) == LogLine("error", <<"Meilisearch error: ", e.type>>)
    IN  IF r.raised
        THEN Raise(r.exc, r.calls, <<errLog(r.exc)>>)
        ELSE IF \E i \in 1..Len(results) : ~RelevanceScoreField(results[i].score)
        THEN Raise(ValidationError, r.calls, <<errLog(ValidationError)>>)
        ELSE Ok(Prefix(SortByScoreDesc(sources), limit), r.calls,
                <<LogLine("info", <<"Search completed: ", ToString(Len(sources)),
                                    " results found">>)>>)

(* -------------------------------- main.py ------------------------------ *)
Response(status, body) == [status |-> status, body |-> body]

HTTPException(status, detail) == Response(status, [detail |-> detail])

\* FastAPI answers a request that fails validation before the handler runs
RequestValidationError == HTTPException(422, L("Unprocessable Entity"))

Handled(resp, r) ==
    [resp |-> resp, calls |-> r.calls, logs |-> r.logs,
     caught |-> IF r.raised THEN r.exc ELSE NoExc]

\* variant: the search handler also asks the language model
search_sources_handler_WithLLM(request, reply, uuid) ==
    LET r == SearchService_search(request.query, request.language, request.limit, reply)
        g == [r EXCEPT !.calls = r.calls \o <<GenCall(request.query, <<>>)>>]
    IN  IF g.raised
        THEN Handled(HTTPException(503, L("Search service unavailable")), g)
        ELSE Handled(Response(200, SearchResponse(g.value, uuid)), g)

search_sources_handler(request, reply, uuid) ==
    LET r == SearchService_search(request.query, request.language, request.limit, reply)
    IN  IF r.raised
        THEN Handled(HTTPException(503, L("Search service unavailable")), r)
        ELSE Handled(Response(200, SearchResponse(r.value, uuid)), r)

(* -------------------------- summarize_service.py ----------------------- *)
\* the literal of the fallback answer, word by word
FallbackAnswer ==
    <<"I", " ", "don't", " ", "have", " ", "enough", " ", "information", " ",
      "to", " ", "answer", " ", "that", " ", "question.">>

SummarizeSystemPrompt ==
    L("You are a helpful search assistant. Answer the user's question based ONLY on the provided sources. Be concise and accurate.")

\* variant: the language of the request is ignored
lang_names_AlwaysEnglish(language) == L("English")

lang_names(language) ==
    CASE language = "en" -> L("English")
      [] language = "sk" -> L("Slovak")
      [] language = "de" -> L("German")
      [] OTHER -> L("English")

\* variant: the filter on the requested ids is dropped
FilterByIds_KeepAll(results, source_ids) == results

\* [r for r in all_results if r.id in source_ids]
RECURSIVE FilterByIds(_, _)
\* variant: the sources are collected id by id, in the order of source_ids
FilterByIds_RequestOrder(results, source_ids) ==
    Flatten([k \in 1..Len(source_ids) |->
               SelectSeq(results, LAMBDA r : r.id = source_ids[k])])

FilterByIds(results, source_ids) ==
    IF results = <<>> THEN <<>>
    ELSE (IF \E k \in 1..Len(source_ids) : source_ids[k] = Head(results).id
          THEN <<Head(results)>> ELSE <<>>)
         \o FilterByIds(Tail(results), source_ids)

\* variant: the content goes into the context uncut
SummarizeService_build_context_NoCut(sources) ==
    Join(Flatten([i \in 1..Len(sources) |->
                    << <<"Source ", ToString(i), " (">> \o sources[i].title \o L("):"),
                       L("URL: ") \o sources[i].url,
                       sources[i].content,
                       <<>> >>]),
         NL)

SummarizeService_build_context(sources) ==
    Join(Flatten([i \in 1..Len(sources) |->
                    << <<"Source ", ToString(i), " (">> \o sources[i].title \o L("):"),
                       L("URL: ") \o sources[i].url,
                       Prefix(sources[i].content, ContextContentMax),
                       <<>> >>]),
         NL)

build_prompt(query, context, language) ==
    L("You are a helpful search assistant. Answer the user's question based ONLY on the provided sources.\n\nSources:\n")
    \o context
    \o L("\n\nUser Question: ") \o query
    \o L("\n\nInstructions:\n- Answer in ") \o lang_names(language)
    \o L("\n- Use only information from the sources\n- Be concise and accurate (2-3 paragraphs maximum)\n- If sources don't contain the answer, say so\n- Do not make up information\n\nAnswer:")

\* repr of a list of str, as an f-string renders it
ReprList(ids) ==
    L("[") \o Join([k \in 1..Len(ids) |-> <<"'", ids[k], "'">>], L(", ")) \o L("]")

\* variant: the error line quotes the exception's text
SummarizeErrLog_Text(e) == LogLine("error", <<"Summarize error: ">> \o e.text)

SummarizeErrLog(e) == LogLine("error", <<"Summarize error: ", e.type>>)

\* generate_answer up to its await (or to its return, when it does not await)
generate_answer(query, language, source_ids, reply) ==
    LET r == MeilisearchClient_search(<<>>, RefetchLimit, reply)
        sources == FilterByIds(r.value, source_ids)
    IN  IF r.raised
        THEN Raise(r.exc, r.calls, <<SummarizeErrLog(r.exc)>>)
        ELSE IF sources = <<>>
        THEN Ok(FallbackAnswer, r.calls,
                <<LogLine("warning", L("No sources found for IDs: ") \o ReprList(source_ids))>>)
        ELSE Await(r.calls \o
                   <<GenCall(build_prompt(query, SummarizeService_build_context(sources), language),
                             SummarizeSystemPrompt)>>,
                   <<>>)

\* variant: the success line quotes the answer
generate_answer_resume_LogsAnswer(reply) ==
    LET g == OllamaClient_generate(reply)
    IN  IF g.raised
        THEN Raise(g.exc, <<>>, <<SummarizeErrLog(g.exc)>>)
        ELSE Ok(strip(g.value), <<>>,
                <<LogLine("info", L("Answer generated: ") \o g.value)>>)

\* variant: the answer is returned as the model wrote it
generate_answer_resume_NoStrip(reply) ==
    LET g == OllamaClient_generate(reply)
    IN  IF g.raised
        THEN Raise(g.exc, <<>>, <<SummarizeErrLog(g.exc)>>)
        ELSE Ok(g.value, <<>>, <<LogLine("info", L("Answer generated successfully"))>>)

\* generate_answer from the return of ollama.generate to its end
generate_answer_resume(reply) ==
    LET g == OllamaClient_generate(reply)
    IN  IF g.raised
        THEN Raise(g.exc, <<>>, <<SummarizeErrLog(g.exc)>>)
        ELSE Ok(strip(g.value), <<>>, <<LogLine("info", L("Answer generated successfully"))>>)

(* ----------------------------- chat_service.py ------------------------- *)
ChatSource(result) ==
    [title |-> result.title, url |-> result.url,
     snippet |-> Prefix(result.content, ChatSnippetMax)]

ChatResponse(answer, sources, query) ==
    [answer |-> answer, sources |-> sources, query |-> query]

ChatSystemPrompt ==
    L("You are a helpful search assistant. Answer the user's question\nbased on the provided context. If the context doesn't contain enough information,\nsay so. Always cite your sources.")

\* variant: the context is built from the hits that become sources
ChatService_build_context_Top3(results) ==
    IF results = <<>> THEN <<>>
    ELSE Join(Flatten([i \in 1..Min(ChatTopSources, Len(results)) |->
                         << <<"[", ToString(i), "] ">> \o results[i].title,
                            L("URL: ") \o results[i].url,
                            Prefix(results[i].content, ContextContentMax),
                            <<>> >>]),
              NL)

ChatService_build_context(results) ==
    IF results = <<>> THEN <<>>
    ELSE Join(Flatten([i \in 1..Len(results) |->
                         << <<"[", ToString(i), "] ">> \o results[i].title,
                            L("URL: ") \o results[i].url,
                            Prefix(results[i].content, ContextContentMax),
                            <<>> >>]),
              NL)

ChatUserPrompt(query, context) ==
    L("Context from search results:\n") \o context
    \o L("\n\nUser question: ") \o query
    \o L("\n\nPlease provide a helpful answer based on the context above.")

\* variant: every result becomes a source
ChatSources_All(results) ==
    [i \in 1..Len(results) |-> ChatSource(results[i])]

ChatSources(results) ==
    [i \in 1..Min(ChatTopSources, Len(results)) |-> ChatSource(results[i])]

\* ChatService.chat up to its await (or to its return, when it does not await)
ChatService_chat(query, limit, reply) ==
    LET r == MeilisearchClient_search(query, limit, reply)
        context == ChatService_build_context(r.value)
    IN  IF r.raised THEN r
        ELSE IF context # <<>>
        THEN Await(r.calls \o <<GenCall(ChatUserPrompt(query, context), ChatSystemPrompt)>>, <<>>)
        ELSE Ok(ChatResponse(FallbackAnswer, ChatSources(r.value), query), r.calls, <<>>)

\* ChatService.chat from the return of ollama.generate to its end
ChatService_chat_resume(query, results, reply) ==
    LET g == OllamaClient_generate(reply)
    IN  IF g.raised THEN g
        ELSE Ok(ChatResponse(g.value, ChatSources(results), query), <<>>, <<>>)

(* ------------------------------ main.py health ------------------------ *)
\* GET /health; an exception out of health_check would reach the framework
health_handler(reply) ==
    LET r == health_check(reply)
    IN  IF r.raised
        THEN [resp |-> HTTPException(500, L("Internal Server Error")),
              calls |-> r.calls, logs |-> r.logs, caught |-> NoExc]
        ELSE IF ~r.value
        THEN Handled(HTTPException(503, L("Meilisearch unavailable")), r)
        ELSE Handled(Response(200, [status |-> L("healthy"), search |-> L("ok")]), r)

(* ---------------------------- main.py handlers ------------------------- *)
\* variant: the response carries a query id of the server's own
summarize_answer_handler_OwnId(request, r) ==
    IF r.raised
    THEN Handled(HTTPException(500, L("Failed to generate answer")), r)
    ELSE Handled(Response(200, SummarizeResponse(r.value, "uuid-1")), r)

\* variant: the detail quotes the exception
summarize_answer_handler_Leaks(request, r) ==
    IF r.raised
    THEN Handled(HTTPException(500, L("Failed to generate answer: ") \o r.exc.text), r)
    ELSE Handled(Response(200, SummarizeResponse(r.value, request.query_id)), r)

\* variant: the status of the search handler
summarize_answer_handler_503(request, r) ==
    IF r.raised
    THEN Handled(HTTPException(503, L("Failed to generate answer")), r)
    ELSE Handled(Response(200, SummarizeResponse(r.value, request.query_id)), r)

\* variant: a failed call is made once more
summarize_answer_handler_Retry(request, r) ==
    IF r.raised
    THEN Handled(HTTPException(500, L("Failed to generate answer")),
                 [r EXCEPT !.calls = r.calls \o r.calls])
    ELSE Handled(Response(200, SummarizeResponse(r.value, request.query_id)), r)

summarize_answer_handler(request, r) ==
    IF r.raised
    THEN Handled(HTTPException(500, L("Failed to generate answer")), r)
    ELSE Handled(Response(200, SummarizeResponse(r.value, request.query_id)), r)

ChatRequest(raw) ==
    [query |-> raw.query,
     limit |-> IF raw.has_limit THEN raw.limit ELSE ChatLimitDefault]

\* the two length checks at the head of chat(); NoResp-like 0 means passed
ChatQueryCheck(request) ==
    IF request.query = <<>> \/ Len(request.query) < ChatMinLen
    THEN HTTPException(400, L("Query too short"))
    ELSE IF Len(request.query) > ChatMaxLen
    THEN HTTPException(400, L("Query too long"))
    ELSE Response(0, [detail |-> <<>>])

chat_handler(r) ==
    IF r.raised
    THEN Handled(HTTPException(500, L("Search failed: ") \o r.exc.text), r)
    ELSE Handled(Response(200, r.value), r)

(* ------------------------------ the clients ---------------------------- *)
Queries ==
    { <<>>, <<" ">>, <<"q">>, <<" ", "q", " ">>, Rep("q", QueryMaxLen + 1) }

RequestLanguages == Languages \cup {"xx"}

RequestLimits == {0, 1, LimitMax + 1}

\* query ids a client may send: one the server can have issued, the empty
\* string, and one the server never issues
RequestQueryIds == {"uuid-1", "", "forged"}

SourceIdValues == {DocId(d) : d \in Docs} \cup {"missing"}

NoReq ==
    [endpoint |-> "none", query |-> <<>>, language |-> "", has_limit |-> FALSE,
     limit |-> 0, query_id |-> "", source_ids |-> <<>>]

\* /api/search also gets a query of exactly max_length
SearchQueries == Queries \cup {Rep("q", QueryMaxLen)}

SearchRequests ==
    {[NoReq EXCEPT !.endpoint = "search", !.query = q, !.language = l] :
        q \in SearchQueries, l \in RequestLanguages}
    \cup {[NoReq EXCEPT !.endpoint = "search", !.query = q, !.language = l,
                        !.has_limit = TRUE, !.limit = n] :
        q \in SearchQueries, l \in RequestLanguages, n \in RequestLimits}

SummarizeRequests ==
    {[NoReq EXCEPT !.endpoint = "summarize", !.query = q, !.language = l,
                   !.query_id = id, !.source_ids = ids] :
        q \in Queries, l \in RequestLanguages, id \in RequestQueryIds,
        ids \in SeqsUpTo(SourceIdValues, MaxSourceIds)}

ChatRequests ==
    {[NoReq EXCEPT !.endpoint = "chat", !.query = q] : q \in Queries}
    \cup {[NoReq EXCEPT !.endpoint = "chat", !.query = q, !.has_limit = TRUE, !.limit = n] :
        q \in Queries, n \in RequestLimits}

HealthRequest == [NoReq EXCEPT !.endpoint = "health"]

Requests ==
    SearchRequests \cup SummarizeRequests \cup ChatRequests \cup {HealthRequest}

(* ------------------------------- the state ----------------------------- *)
VARIABLES
    pc,          \* "idle", "received", "awaiting" (suspended in generate), "done"
    req,         \* the request being served, as the client sent it
    resp,        \* the HTTP response, once there is one
    calls,       \* the backend calls made for the request, in order
    logs,        \* the log lines emitted for the request, in order
    caught,      \* the exception the handler's except clause caught, if any
    indexReply,  \* what the search index answered to the request's call
    genReply     \* what the language-model backend answered

vars == <<pc, req, resp, calls, logs, caught, indexReply, genReply>>

NoResp == Response(0, [detail |-> <<>>])

Init ==
    /\ pc = "idle"
    /\ req = NoReq
    /\ resp = NoResp
    /\ calls = <<>>
    /\ logs = <<>>
    /\ caught = NoExc
    /\ indexReply = NoReply
    /\ genReply = NoReply

\* a client sends a request
Receive ==
    /\ pc = "idle"
    /\ \E r \in Requests : req' = r
    /\ pc' = "received"
    /\ UNCHANGED <<resp, calls, logs, caught, indexReply, genReply>>

\* the request did not pass the validation of its request model
Reject ==
    /\ pc' = "done"
    /\ resp' = RequestValidationError
    /\ UNCHANGED <<req, calls, logs, caught, indexReply, genReply>>

\* the handler never returns: it starts over
Finish_StartsOver(h) ==
    /\ pc' = "received"
    /\ resp' = h.resp
    /\ calls' = calls
    /\ logs' = logs
    /\ caught' = h.caught

\* the handler ran to its end (h: what Handled built)
Finish(h) ==
    /\ pc' = "done"
    /\ resp' = h.resp
    /\ calls' = calls \o h.calls
    /\ logs' = logs \o h.logs
    /\ caught' = h.caught

\* the handler is suspended in its await
Suspend(r) ==
    /\ pc' = "awaiting"
    /\ calls' = calls \o r.calls
    /\ logs' = logs \o r.logs
    /\ UNCHANGED <<resp, caught>>

\* POST /api/search, the index answering one of replies
search_sources_from(replies) ==
    /\ pc = "received" /\ req.endpoint = "search"
    /\ LET request == SearchRequest(req)
       IN  IF ~request.valid THEN Reject
           ELSE \E reply \in replies, uuid \in Uuids :
                  /\ Finish(search_sources_handler(request, reply, uuid))
                  /\ indexReply' = reply
                  /\ UNCHANGED <<req, genReply>>

search_sources == search_sources_from(IndexReplies)

\* POST /api/summarize, up to the await of the language model, the index
\* answering one of replies
summarize_answer_from(replies) ==
    /\ pc = "received" /\ req.endpoint = "summarize"
    /\ LET request == SummarizeRequest(req)
       IN  IF ~request.valid THEN Reject
           ELSE \E reply \in replies :
                  LET r == generate_answer(request.query, request.language,
                                           request.source_ids, reply)
                  IN  /\ IF r.awaiting THEN Suspend(r)
                         ELSE Finish(summarize_answer_handler(request, r))
                      /\ indexReply' = reply
                      /\ UNCHANGED <<req, genReply>>

summarize_answer == summarize_answer_from(IndexReplies)

\* POST /api/summarize, from the answer of the language model on
summarize_answer_resume ==
    /\ pc = "awaiting" /\ req.endpoint = "summarize"
    /\ \E reply \in GenReplies :
          /\ Finish(summarize_answer_handler(SummarizeRequest(req),
                                             generate_answer_resume(reply)))
          /\ genReply' = reply
          /\ UNCHANGED <<req, indexReply>>

\* POST /chat, up to the await of the language model, the index answering
\* one of replies
chat_from(replies) ==
    /\ pc = "received" /\ req.endpoint = "chat"
    /\ LET request == ChatRequest(req)
       IN  IF ChatQueryCheck(request).status # 0
           THEN /\ pc' = "done"
                /\ resp' = ChatQueryCheck(request)
                /\ UNCHANGED <<req, calls, logs, caught, indexReply, genReply>>
           ELSE \E reply \in replies :
                  LET r == ChatService_chat(request.query, request.limit, reply)
                  IN  /\ IF r.awaiting THEN Suspend(r) ELSE Finish(chat_handler(r))
                      /\ indexReply' = reply
                      /\ UNCHANGED <<req, genReply>>

chat == chat_from(IndexReplies)

\* POST /chat, from the answer of the language model on
chat_resume ==
    /\ pc = "awaiting" /\ req.endpoint = "chat"
    /\ \E reply \in GenReplies :
          LET results == MeilisearchClient_search(req.query, 0, indexReply).value
          IN  /\ Finish(chat_handler(
                     ChatService_chat_resume(ChatRequest(req).query, results, reply)))
              /\ genReply' = reply
              /\ UNCHANGED <<req, indexReply>>

\* GET /health
health ==
    /\ pc = "received" /\ req.endpoint = "health"
    /\ \E reply \in HealthReplies :
          /\ Finish(health_handler(reply))
          /\ indexReply' = reply
          /\ UNCHANGED <<req, genReply>>

\* the response is on the wire; the request leaves no state behind
Respond ==
    /\ pc = "done"
    /\ pc' = "idle"
    /\ req' = NoReq
    /\ resp' = NoResp
    /\ calls' = <<>>
    /\ logs' = <<>>
    /\ caught' = NoExc
    /\ indexReply' = NoReply
    /\ genReply' = NoReply

Next ==
    \/ Receive
    \/ search_sources
    \/ summarize_answer
    \/ summarize_answer_resume
    \/ chat
    \/ chat_resume
    \/ health
    \/ Respond

Spec == Init /\ [][Next]_vars

(* ---------------- /chat alone, with longer answers of the index --------- *)
\* ChatService.chat never reads the score of a hit: one score is enough
WideIndexReplies ==
    {[kind |-> "hits", hits |-> h] :
        h \in SeqsUpTo([doc : Docs, score : {ScoreScale}], MaxChatHits)}
    \cup {[kind |-> "error", exc |-> e] : e \in Exceptions}

ReceiveChat ==
    /\ pc = "idle"
    /\ \E r \in ChatRequests : req' = r
    /\ pc' = "received"
    /\ UNCHANGED <<resp, calls, logs, caught, indexReply, genReply>>

chat_wide == chat_from(WideIndexReplies)

ChatNext ==
    \/ ReceiveChat
    \/ chat_wide
    \/ chat_resume
    \/ Respond

ChatSpec == Init /\ [][ChatNext]_vars

(* ------------------------- shorthands of the claims -------------------- *)
GenCalls == SelectSeq(calls, LAMBDA c : c.svc = "generate")

IndexCalls == SelectSeq(calls, LAMBDA c : c.svc = "search")

\* a query of 1 to 500 characters that is not only whitespace
QueryAccepted(q) ==
    /\ Len(q) >= 1 /\ Len(q) <= 500
    /\ \E i \in 1..Len(q) : q[i] # " "

LanguageAccepted(l) == l \in {"en", "sk", "de"}

\* "I don't have enough information to answer that question."
FallbackText ==
    <<"I", " ", "don't", " ", "have", " ", "enough", " ", "information", " ",
      "to", " ", "answer", " ", "that", " ", "question.">>

\* the ids of the hits the index returned that the request asks for
MatchedHits ==
    {i \in 1..Len(indexReply.hits) :
        \E k \in 1..Len(req.source_ids) :
            req.source_ids[k] = DocId(indexReply.hits[i].doc)}

ValidSummarize ==
    /\ req.endpoint = "summarize"
    /\ QueryAccepted(req.query) /\ LanguageAccepted(req.language)
    /\ Len(req.source_ids) >= 1

(* ------------------------------- the claims ---------------------------- *)

\* C1: whatever the /api/search request (valid or not, index answering or
\* failing), no call to the language model's generate is made for it.
C1_SearchNeverCallsLLM ==
    req.endpoint = "search" => Len(GenCalls) = 0

C1_Witness ==
    /\ pc = "done" /\ req.endpoint = "search"
    /\ resp.status = 200 /\ Len(resp.body.sources) >= 1
    /\ Len(IndexCalls) = 1

\* C2: a valid /api/summarize request none of whose source_ids is among the
\* hits of the re-fetch is answered 200 with the fixed fallback answer, and
\* the language model is not called for it.
C2_NoMatchGivesFallback ==
    (ValidSummarize /\ indexReply.kind = "hits" /\ MatchedHits = {}) =>
        /\ pc = "done"
        /\ resp.status = 200
        /\ resp.body.answer = FallbackText
        /\ Len(GenCalls) = 0

C2_Witness ==
    /\ ValidSummarize /\ indexReply.kind = "hits" /\ MatchedHits = {}
    /\ Len(indexReply.hits) >= 1
    /\ pc = "done" /\ resp.status = 200

\* C3: a valid /api/summarize request with at least one source id among the
\* hits of the re-fetch calls the language model exactly once, with a prompt
\* that holds the title of every matched hit and the name of the language.
C3_MatchCallsLLMOnce ==
    (ValidSummarize /\ indexReply.kind = "hits" /\ MatchedHits # {}) =>
        /\ Len(GenCalls) = 1
        /\ \A i \in MatchedHits :
              Contains(GenCalls[1].prompt, DocTitle(indexReply.hits[i].doc))
        /\ req.language = "en" => Contains(GenCalls[1].prompt, L("English"))
        /\ req.language = "sk" => Contains(GenCalls[1].prompt, L("Slovak"))
        /\ req.language = "de" => Contains(GenCalls[1].prompt, L("German"))

C3_Witness ==
    /\ ValidSummarize /\ indexReply.kind = "hits"
    /\ Cardinality({indexReply.hits[i].doc : i \in MatchedHits}) >= 2
    /\ req.language = "sk"
    /\ pc = "done" /\ resp.status = 200

\* C4: a 200 response of /api/summarize carries the query_id of its request,
\* whatever that string is, and its answer is a function of the backends'
\* answers alone: the fallback, or the stripped text of the language model.
C4_QueryIdEchoed ==
    (pc = "done" /\ req.endpoint = "summarize" /\ resp.status = 200) =>
        /\ resp.body.query_id = req.query_id
        /\ resp.body.answer =
              IF genReply.kind = "text" THEN strip(genReply.text)
              ELSE FallbackText

C4_Witness ==
    /\ pc = "done" /\ req.endpoint = "summarize" /\ resp.status = 200
    /\ req.query_id = "forged" /\ req.query_id \notin Uuids
    /\ genReply.kind = "text"

\* C5: a /api/search request with a valid query and language, whose index
\* call returned hits without failing, is answered 200 with a sources list
\* and a non-empty query_id, and without an answer field.
C5_ValidSearchReturns200 ==
    (/\ req.endpoint = "search"
     /\ QueryAccepted(req.query) /\ LanguageAccepted(req.language)
     /\ indexReply.kind = "hits") =>
        /\ pc = "done"
        /\ resp.status = 200
        /\ "sources" \in DOMAIN resp.body
        /\ "query_id" \in DOMAIN resp.body /\ resp.body.query_id # ""
        /\ "answer" \notin DOMAIN resp.body

\* C6: every source of a 200 response of /api/search has a relevance_score
\* in [0.0, 1.0] and a snippet of at most 203 characters.
C6_SourceScoreAndSnippetBounded ==
    (pc = "done" /\ req.endpoint = "search" /\ resp.status = 200) =>
        \A i \in 1..Len(resp.body.sources) :
            /\ resp.body.sources[i].relevance_score >= 0
            /\ resp.body.sources[i].relevance_score <= ScoreScale
            /\ Len(resp.body.sources[i].snippet) <= 203

C6_Witness ==
    /\ pc = "done" /\ req.endpoint = "search" /\ resp.status = 200
    /\ \E i \in 1..Len(resp.body.sources) :
          /\ Len(resp.body.sources[i].snippet) = 203
          /\ resp.body.sources[i].relevance_score = ScoreScale
    /\ \E i \in 1..Len(resp.body.sources) :
          /\ Len(resp.body.sources[i].snippet) = 200
          /\ resp.body.sources[i].relevance_score = 0
    /\ \E i \in 1..Len(indexReply.hits) :
          Len(DocContent(indexReply.hits[i].doc)) > 200

\* C7: the sources of a 200 response of /api/search are in non-increasing
\* order of relevance_score, whatever the order of the index's hits.
C7_SourcesSortedDescending ==
    (pc = "done" /\ req.endpoint = "search" /\ resp.status = 200) =>
        \A i, j \in 1..Len(resp.body.sources) :
            i < j => resp.body.sources[i].relevance_score
                       >= resp.body.sources[j].relevance_score

C7_Witness ==
    /\ pc = "done" /\ req.endpoint = "search" /\ resp.status = 200
    /\ Len(resp.body.sources) >= 2
    /\ resp.body.sources[1].relevance_score > resp.body.sources[2].relevance_score
    /\ indexReply.hits[1].score < indexReply.hits[2].score

\* C8: a /api/summarize request with an empty source_ids list is answered
\* 422 whatever its other fields, and no backend is called for it.
C8_EmptySourceIdsRejected ==
    (req.endpoint = "summarize" /\ req.source_ids = <<>> /\ pc # "received") =>
        /\ pc = "done"
        /\ resp.status = 422
        /\ calls = <<>>
        /\ indexReply = NoReply /\ genReply = NoReply

C8_Witness ==
    /\ pc = "done" /\ req.endpoint = "summarize" /\ req.source_ids = <<>>
    /\ QueryAccepted(req.query) /\ LanguageAccepted(req.language)
    /\ resp.status = 422

\* C9: an index failure during a valid /api/search gives 503, a language
\* model failure during a valid /api/summarize gives 500; both bodies have
\* a detail that is one fixed string, whatever the backend's error.
C9_BackendFailureStatus ==
    /\ (pc = "done" /\ req.endpoint = "search" /\ indexReply.kind = "error") =>
          /\ resp.status = 503
          /\ DOMAIN resp.body = {"detail"}
          /\ resp.body.detail = L("Search service unavailable")
    /\ (pc = "done" /\ req.endpoint = "summarize" /\ genReply.kind = "error") =>
          /\ resp.status = 500
          /\ DOMAIN resp.body = {"detail"}
          /\ resp.body.detail = L("Failed to generate answer")

C9_Witness ==
    /\ pc = "done" /\ ValidSummarize
    /\ genReply.kind = "error" /\ caught = genReply.exc
    /\ resp.status = 500

C9_WitnessSearch ==
    /\ pc = "done" /\ req.endpoint = "search"
    /\ indexReply.kind = "error" /\ caught = indexReply.exc
    /\ resp.status = 503

\* C10: on every endpoint, when a call to a backend raised, the error
\* response holds no text of the raised exception.
C10_NoExceptionTextInErrorResponse ==
    (pc = "done" /\ caught # NoExc) =>
        /\ resp.status >= 400
        /\ ~Contains(resp.body.detail, caught.text)

\* the log lines the handlers emit for a request and the backends' answers
LogsFor(raw, ireply, greply) ==
    IF raw.endpoint = "search"
    THEN IF SearchRequest(raw).valid
         THEN search_sources_handler(SearchRequest(raw), ireply, "uuid-1").logs
         ELSE <<>>
    ELSE LET request == SummarizeRequest(raw)
             r == generate_answer(request.query, request.language,
                                  request.source_ids, ireply)
         IN  IF ~request.valid THEN <<>>
             ELSE IF r.awaiting /\ greply.kind # "none"
             THEN r.logs \o generate_answer_resume(greply).logs
             ELSE r.logs

\* other accepted queries and other generated texts
AltQueries == { <<"s", "e", "c", "r", "e", "t">> }

AltTexts == { <<"z">> }

\* C11: for /api/search and /api/summarize, on every path, no log line holds
\* the query text or the generated text, and the log lines stay the same
\* when the (accepted) query text and the generated text are replaced.
C11_LogsIndependentOfQueryAndAnswer ==
    (/\ req.endpoint \in {"search", "summarize"}
     /\ pc \in {"awaiting", "done"}
     /\ QueryAccepted(req.query)) =>
        /\ \A i \in 1..Len(logs) :
              /\ ~Contains(logs[i].msg, strip(req.query))
              /\ (genReply.kind = "text" /\ strip(genReply.text) # <<>>) =>
                    ~Contains(logs[i].msg, strip(genReply.text))
        /\ \A q2 \in AltQueries, t2 \in AltTexts :
              logs = LogsFor([req EXCEPT !.query = q2], indexReply,
                             IF genReply.kind = "text"
                             THEN [genReply EXCEPT !.text = t2] ELSE genReply)

C11_Witness ==
    /\ pc = "done" /\ ValidSummarize /\ resp.status = 200
    /\ genReply.kind = "text" /\ strip(genReply.text) # <<>>
    /\ Len(logs) >= 1

C11_WitnessFailure ==
    /\ pc = "done" /\ ValidSummarize /\ resp.status = 500
    /\ genReply.kind = "error" /\ Len(logs) >= 1

\* C12: a successful /chat response holds answer, sources and query
\* together, at most 3 sources, and the query of the request, with zero
\* hits as with one or more.
C12_ChatResponseShape ==
    (pc = "done" /\ req.endpoint = "chat" /\ resp.status = 200) =>
        /\ DOMAIN resp.body = {"answer", "sources", "query"}
        /\ Len(resp.body.sources) <= 3
        /\ resp.body.query = req.query

C12_Witness ==
    /\ pc = "done" /\ req.endpoint = "chat" /\ resp.status = 200
    /\ Len(indexReply.hits) >= 4
    /\ Len(resp.body.sources) = 3

C12_WitnessNoHits ==
    /\ pc = "done" /\ req.endpoint = "chat" /\ resp.status = 200
    /\ indexReply.kind = "hits" /\ Len(indexReply.hits) = 0
    /\ Len(GenCalls) = 0

\* C13: /api/search rejects a limit outside 1..50 with 422 without calling
\* the index; an accepted request calls the index exactly once with the
\* request's limit (10 when omitted) and its response has at most limit
\* sources, even when the index returns more hits.
C13_LimitEnforced ==
    (pc = "done" /\ req.endpoint = "search") =>
        LET limit == IF req.has_limit THEN req.limit ELSE 10
        IN  /\ (limit < 1 \/ limit > 50) => (resp.status = 422 /\ calls = <<>>)
            /\ resp.status # 422 =>
                  /\ Len(IndexCalls) = 1
                  /\ IndexCalls[1].limit = limit
                  /\ Len(calls) = 1
            /\ resp.status = 200 => Len(resp.body.sources) <= limit

C13_Witness ==
    /\ pc = "done" /\ req.endpoint = "search" /\ resp.status = 200
    /\ req.has_limit /\ req.limit = 1
    /\ Len(indexReply.hits) = 2
    /\ Len(resp.body.sources) = 1

C13_WitnessDefault ==
    /\ pc = "done" /\ req.endpoint = "search" /\ resp.status = 200
    /\ ~req.has_limit /\ IndexCalls[1].limit = 10

\* r is q without its leading and trailing whitespace
IsStripOf(r, q) ==
    /\ r # <<>> /\ r[1] # " " /\ r[Len(r)] # " "
    /\ \E i \in 0..(Len(q) - Len(r)) :
          /\ SubSeq(q, i + 1, i + Len(r)) = r
          /\ \A k \in 1..Len(q) : (k <= i \/ k > i + Len(r)) => q[k] = " "

\* C14: /api/search and /api/summarize answer 422, calling no backend, when
\* the query is empty, only whitespace or longer than 500 characters, or
\* the language is not en, sk or de; the query an accepted request hands
\* on is the request's query without leading and trailing whitespace.
C14_QueryAndLanguageValidated ==
    (req.endpoint \in {"search", "summarize"} /\ pc \in {"awaiting", "done"}) =>
        /\ (~QueryAccepted(req.query) \/ ~LanguageAccepted(req.language)) =>
              (pc = "done" /\ resp.status = 422 /\ calls = <<>>)
        /\ (req.endpoint = "search" /\ Len(IndexCalls) >= 1) =>
              IsStripOf(IndexCalls[1].query, req.query)
        /\ (req.endpoint = "summarize" /\ Len(GenCalls) >= 1) =>
              \E i, j \in 1..Len(req.query) :
                  /\ IsStripOf(SubSeq(req.query, i, j), req.query)
                  /\ Contains(GenCalls[1].prompt,
                              L("\n\nUser Question: ") \o SubSeq(req.query, i, j)
                              \o L("\n\nInstructions:\n- Answer in "))

C14_Witness ==
    /\ pc = "done" /\ req.endpoint = "search" /\ resp.status = 200
    /\ req.query = <<" ", "q", " ">>
    /\ IndexCalls[1].query = <<"q">>

C14_WitnessSummarize ==
    /\ pc = "done" /\ req.endpoint = "summarize" /\ resp.status = 200
    /\ req.query = <<" ", "q", " ">> /\ Len(GenCalls) = 1

C14_WitnessTooLong ==
    /\ pc = "done" /\ req.endpoint = "summarize" /\ resp.status = 422
    /\ Len(req.query) > 500 /\ LanguageAccepted(req.language)
    /\ Len(req.source_ids) >= 1

\* C15: health_check never raises; it returns True exactly when the
\* index's health call succeeds with status "available"; GET /health returns
\* 503 exactly when health_check returns False, and 200 otherwise.
C15_HealthCheck ==
    (pc = "done" /\ req.endpoint = "health") =>
        LET available == indexReply.kind = "health" /\ indexReply.status = "available"
        IN  /\ ~health_check(indexReply).raised
            /\ health_check(indexReply).value = available
            /\ (resp.status = 503) = ~available
            /\ (resp.status = 200) = available
            /\ calls = <<[svc |-> "health"]>>

C15_Witness ==
    /\ pc = "done" /\ req.endpoint = "health"
    /\ indexReply.kind = "error" /\ resp.status = 503

C15_WitnessHealthy ==
    /\ pc = "done" /\ req.endpoint = "health"
    /\ indexReply.kind = "health" /\ resp.status = 200

C15_WitnessOtherStatus ==
    /\ pc = "done" /\ req.endpoint = "health"
    /\ indexReply.kind = "health" /\ indexReply.status = "" /\ resp.status = 503

\* C16: MeilisearchClient.search(query, limit) passes limit to the index and
\* returns at most limit results, whatever the index answers.
C16_ClientReturnsAtMostLimit ==
    (Len(IndexCalls) >= 1 /\ indexReply.kind = "hits") =>
        Len(MeilisearchClient_search(IndexCalls[1].query, IndexCalls[1].limit,
                                     indexReply).value) <= IndexCalls[1].limit

\* C17: an index failure in the re-fetch of a valid /api/summarize request
\* gives 500 (not 503, not the 200 fallback) and no language-model call.
C17_RefetchFailureIs500 ==
    (ValidSummarize /\ indexReply.kind = "error") =>
        /\ pc = "done"
        /\ resp.status = 500
        /\ Len(GenCalls) = 0

C17_Witness ==
    /\ ValidSummarize /\ indexReply.kind = "error" /\ pc = "done"
    /\ caught = indexReply.exc /\ Len(IndexCalls) = 1

\* str.lower() on the model's tokens
LowerToken(t) ==
    CASE t = "I" -> "i"
      [] t = "Title" -> "title"
      [] OTHER -> t

lower(s) == [i \in DOMAIN s |-> LowerToken(s[i])]

\* C18: with no hits ChatService.chat returns zero sources and an answer
\* that holds, case-insensitively, the phrase "don't have information".
C18_NoHitsAnswerPhrase ==
    (/\ pc = "done" /\ req.endpoint = "chat" /\ resp.status = 200
     /\ indexReply.kind = "hits" /\ indexReply.hits = <<>>) =>
        /\ Len(resp.body.sources) = 0
        /\ Contains(lower(resp.body.answer),
                    <<"don't", " ", "have", " ", "information">>)

\* C19 as claimed: every 200 response of /api/summarize has a non-empty
\* answer, whatever text the language model returned.
C19_AnswerNeverEmpty ==
    (pc = "done" /\ req.endpoint = "summarize" /\ resp.status = 200) =>
        resp.body.answer # <<>>

\* C19, amended: the answer of a 200 response of /api/summarize is empty
\* exactly when the language model returned an empty or all-whitespace
\* text; the no-matching-sources answer is never empty.
C19_AnswerEmptyOnlyForBlankText ==
    (pc = "done" /\ req.endpoint = "summarize" /\ resp.status = 200) =>
        /\ (resp.body.answer = <<>>) =
              (/\ genReply.kind = "text"
               /\ \A i \in 1..Len(genReply.text) : genReply.text[i] \in {" ", "\n", "\t"})
        /\ genReply.kind = "none" => resp.body.answer # <<>>
        /\ resp.body.answer # <<>> =>
              /\ resp.body.answer[1] \notin {" ", "\n", "\t"}
              /\ resp.body.answer[Len(resp.body.answer)] \notin {" ", "\n", "\t"}

C19_Witness ==
    /\ pc = "done" /\ req.endpoint = "summarize" /\ resp.status = 200
    /\ genReply.kind = "text" /\ genReply.text = <<" ">>
    /\ resp.body.answer = <<>>

C19_WitnessNonEmpty ==
    /\ pc = "done" /\ req.endpoint = "summarize" /\ resp.status = 200
    /\ genReply.kind = "text" /\ genReply.text = <<" ", "a", "\n">>
    /\ resp.body.answer = <<"a">>

\* C20: within one /api/summarize request each backend is called at most
\* once, the index before the language model and only after the index has
\* answered; a failed call is not repeated and a failed index call is not
\* followed by a language-model call.
C20_SummarizeCallOrder ==
    req.endpoint = "summarize" =>
        /\ Len(IndexCalls) <= 1 /\ Len(GenCalls) <= 1
        /\ Len(calls) = Len(IndexCalls) + Len(GenCalls)
        /\ Len(GenCalls) = 1 =>
              /\ calls[1].svc = "search" /\ calls[2].svc = "generate"
              /\ indexReply.kind = "hits"
        /\ indexReply.kind = "error" => (calls = <<calls[1]>> /\ pc = "done")
        /\ genReply.kind = "error" => (Len(calls) = 2 /\ pc = "done")

C20_Witness ==
    /\ pc = "done" /\ req.endpoint = "summarize"
    /\ genReply.kind = "error" /\ Len(calls) = 2

C20_WitnessSuspended ==
    /\ pc = "awaiting" /\ req.endpoint = "summarize"
    /\ indexReply.kind = "hits" /\ genReply.kind = "none" /\ Len(GenCalls) = 1

(* ---------------- the requests under a fair scheduler ------------------- *)

MaxLiveHits == 2

\* the requests to the three endpoints that carry a query: a query every
\* endpoint rejects, one /chat rejects and one every endpoint accepts, an
\* accepted and a rejected language, at most one source id
LiveRequests ==
    {r \in SearchRequests \cup SummarizeRequests \cup ChatRequests :
        /\ r.query \in {<<>>, <<"q">>, <<" ", "q", " ">>}
        /\ r.language \in {"", "en", "xx"}
        /\ r.query_id \in {"", "uuid-1"}
        /\ ~r.has_limit
        /\ Len(r.source_ids) <= 1}

LiveIndexReplies ==
    {[kind |-> "hits", hits |-> h] :
        h \in SeqsUpTo([doc : Docs, score : {ScoreScale}], MaxLiveHits)}
    \cup {[kind |-> "error", exc |-> e] : e \in Exceptions}

ReceiveLive ==
    /\ pc = "idle"
    /\ \E r \in LiveRequests : req' = r
    /\ pc' = "received"
    /\ UNCHANGED <<resp, calls, logs, caught, indexReply, genReply>>

search_sources_live == search_sources_from(LiveIndexReplies)

summarize_answer_live == summarize_answer_from(LiveIndexReplies)

chat_live == chat_from(LiveIndexReplies)

LiveNext ==
    \/ ReceiveLive
    \/ search_sources_live
    \/ summarize_answer_live
    \/ summarize_answer_resume
    \/ chat_live
    \/ chat_resume
    \/ Respond

\* The event loop runs every handler that is ready, a backend call returns,
\* fails or times out (httpx.AsyncClient is built with a timeout), and the
\* server writes the response of a handler that finished.
Fairness ==
    /\ WF_vars(search_sources_live)
    /\ WF_vars(summarize_answer_live)
    /\ WF_vars(summarize_answer_resume)
    /\ WF_vars(chat_live)
    /\ WF_vars(chat_resume)
    /\ WF_vars(Respond)

FairSpec == Init /\ [][LiveNext]_vars /\ Fairness

\* the language model timed out under this /api/summarize request
TimedOut ==
    /\ req.endpoint = "summarize"
    /\ genReply.kind = "error"
    /\ genReply.exc.type = "ReadTimeout"

\* C21: every request to /api/search, /api/summarize or /chat that was
\* received eventually reaches its terminal state (a response or an error
\* response), and a request to /api/summarize whose language-model call
\* timed out ends with status 500 after exactly the two backend calls it
\* had made (the re-fetch and the timed-out call), with none after them.
C21_RequestsTerminate ==
    /\ (pc \in {"received", "awaiting"}
          /\ req.endpoint \in {"search", "summarize", "chat"}) ~> (pc = "done")
    /\ [](TimedOut => /\ pc = "done"
                      /\ resp.status = 500
                      /\ Len(calls) = 2
                      /\ calls[2].svc = "generate")

C21_Witness ==
    /\ TimedOut
    /\ pc = "done"
    /\ resp.status = 500

C21_WitnessChat ==
    /\ pc = "done"
    /\ req.endpoint = "chat"
    /\ genReply.kind = "text"

(* ---------------- requests in flight at the same time ------------------- *)
\* In ConcSpec every variable holds one value per request slot: the event
\* loop interleaves the handlers at their awaits, and each handler call has
\* its own parameter and locals. The module-level clients and services of
\* main.py keep no per-request field.

NumSlots == 2

Slots == 1 .. NumSlots

ConcRequests ==
    { [NoReq EXCEPT !.endpoint = "search", !.query = <<"q">>, !.language = "en"],
      [NoReq EXCEPT !.endpoint = "search", !.query = <<"q">>, !.language = "xx"],
      [NoReq EXCEPT !.endpoint = "chat", !.query = <<" ", "q", " ">>] }
    \cup {[NoReq EXCEPT !.endpoint = "summarize", !.query = <<"q">>,
                        !.language = "en", !.query_id = id,
                        !.source_ids = <<DocId(1)>>] : id \in {"uuid-1", "forged"}}

ConcIndexReplies ==
    { [kind |-> "hits", hits |-> <<>>],
      [kind |-> "hits", hits |-> <<[doc |-> 1, score |-> ScoreScale]>>],
      [kind |-> "error",
       exc |-> [type |-> "MeilisearchApiError", text |-> L("index pages not found")]] }

ConcGenReplies ==
    { [kind |-> "text", text |-> <<"a">>],
      [kind |-> "text", text |-> <<"b">>],
      [kind |-> "error", exc |-> [type |-> "ReadTimeout", text |-> L("timed out")]] }

\* variant: the handlers keep the request in one place shared by all calls
Frame_Shared(s) == 1

\* the frame a handler call reads its parameter and locals from: its own
Frame(s) == s

ConcInit ==
    /\ pc = [s \in Slots |-> "idle"]
    /\ req = [s \in Slots |-> NoReq]
    /\ resp = [s \in Slots |-> NoResp]
    /\ calls = [s \in Slots |-> <<>>]
    /\ logs = [s \in Slots |-> <<>>]
    /\ caught = [s \in Slots |-> NoExc]
    /\ indexReply = [s \in Slots |-> NoReply]
    /\ genReply = [s \in Slots |-> NoReply]

ConcReceive(s) ==
    /\ pc[s] = "idle"
    /\ \E r \in ConcRequests : req' = [req EXCEPT ![s] = r]
    /\ pc' = [pc EXCEPT ![s] = "received"]
    /\ UNCHANGED <<resp, calls, logs, caught, indexReply, genReply>>

ConcReject(s) ==
    /\ pc' = [pc EXCEPT ![s] = "done"]
    /\ resp' = [resp EXCEPT ![s] = RequestValidationError]
    /\ UNCHANGED <<req, calls, logs, caught, indexReply, genReply>>

ConcFinish(s, h) ==
    /\ pc' = [pc EXCEPT ![s] = "done"]
    /\ resp' = [resp EXCEPT ![s] = h.resp]
    /\ calls' = [calls EXCEPT ![s] = @ \o h.calls]
    /\ logs' = [logs EXCEPT ![s] = @ \o h.logs]
    /\ caught' = [caught EXCEPT ![s] = h.caught]

ConcSuspend(s, r) ==
    /\ pc' = [pc EXCEPT ![s] = "awaiting"]
    /\ calls' = [calls EXCEPT ![s] = @ \o r.calls]
    /\ logs' = [logs EXCEPT ![s] = @ \o r.logs]
    /\ UNCHANGED <<resp, caught>>

conc_search_sources(s) ==
    /\ pc[s] = "received" /\ req[s].endpoint = "search"
    /\ LET request == SearchRequest(req[Frame(s)])
       IN  IF ~request.valid THEN ConcReject(s)
           ELSE \E reply \in ConcIndexReplies, uuid \in Uuids :
                  /\ ConcFinish(s, search_sources_handler(request, reply, uuid))
                  /\ indexReply' = [indexReply EXCEPT ![s] = reply]
                  /\ UNCHANGED <<req, genReply>>

conc_summarize_answer(s) ==
    /\ pc[s] = "received" /\ req[s].endpoint = "summarize"
    /\ LET request == SummarizeRequest(req[Frame(s)])
       IN  IF ~request.valid THEN ConcReject(s)
           ELSE \E reply \in ConcIndexReplies :
                  LET r == generate_answer(request.query, request.language,
                                           request.source_ids, reply)
                  IN  /\ IF r.awaiting THEN ConcSuspend(s, r)
                         ELSE ConcFinish(s, summarize_answer_handler(request, r))
                      /\ indexReply' = [indexReply EXCEPT ![s] = reply]
                      /\ UNCHANGED <<req, genReply>>

conc_summarize_answer_resume(s) ==
    /\ pc[s] = "awaiting" /\ req[s].endpoint = "summarize"
    /\ \E reply \in ConcGenReplies :
          /\ ConcFinish(s, summarize_answer_handler(SummarizeRequest(req[Frame(s)]),
                                                    generate_answer_resume(reply)))
          /\ genReply' = [genReply EXCEPT ![s] = reply]
          /\ UNCHANGED <<req, indexReply>>

conc_chat(s) ==
    /\ pc[s] = "received" /\ req[s].endpoint = "chat"
    /\ LET request == ChatRequest(req[Frame(s)])
       IN  IF ChatQueryCheck(request).status # 0
           THEN /\ pc' = [pc EXCEPT ![s] = "done"]
                /\ resp' = [resp EXCEPT ![s] = ChatQueryCheck(request)]
                /\ UNCHANGED <<req, calls, logs, caught, indexReply, genReply>>
           ELSE \E reply \in ConcIndexReplies :
                  LET r == ChatService_chat(request.query, request.limit, reply)
                  IN  /\ IF r.awaiting THEN ConcSuspend(s, r)
                         ELSE ConcFinish(s, chat_handler(r))
                      /\ indexReply' = [indexReply EXCEPT ![s] = reply]
                      /\ UNCHANGED <<req, genReply>>

conc_chat_resume(s) ==
    /\ pc[s] = "awaiting" /\ req[s].endpoint = "chat"
    /\ \E reply \in ConcGenReplies :
          LET request == ChatRequest(req[Frame(s)])
              results == MeilisearchClient_search(request.query, 0,
                                                  indexReply[Frame(s)]).value
          IN  /\ ConcFinish(s, chat_handler(
                     ChatService_chat_resume(request.query, results, reply)))
              /\ genReply' = [genReply EXCEPT ![s] = reply]
              /\ UNCHANGED <<req, indexReply>>

ConcRespond(s) ==
    /\ pc[s] = "done"
    /\ pc' = [pc EXCEPT ![s] = "idle"]
    /\ req' = [req EXCEPT ![s] = NoReq]
    /\ resp' = [resp EXCEPT ![s] = NoResp]
    /\ calls' = [calls EXCEPT ![s] = <<>>]
    /\ logs' = [logs EXCEPT ![s] = <<>>]
    /\ caught' = [caught EXCEPT ![s] = NoExc]
    /\ indexReply' = [indexReply EXCEPT ![s] = NoReply]
    /\ genReply' = [genReply EXCEPT ![s] = NoReply]

ConcNext ==
    \E s \in Slots :
        \/ ConcReceive(s)
        \/ conc_search_sources(s)
        \/ conc_summarize_answer(s)
        \/ conc_summarize_answer_resume(s)
        \/ conc_chat(s)
        \/ conc_chat_resume(s)
        \/ ConcRespond(s)

ConcSpec == ConcInit /\ [][ConcNext]_vars

\* the response the handlers give to one request served alone, the index
\* answering ireply and the language model greply (uuid: the id issued to a
\* search); NoResp when a backend the handlers call has not answered
ResponseFor(raw, ireply, greply, uuid) ==
    IF raw.endpoint = "search"
    THEN IF ~SearchRequest(raw).valid THEN RequestValidationError
         ELSE IF ireply.kind = "none" THEN NoResp
         ELSE search_sources_handler(SearchRequest(raw), ireply, uuid).resp
    ELSE IF raw.endpoint = "summarize"
    THEN IF ~SummarizeRequest(raw).valid THEN RequestValidationError
         ELSE IF ireply.kind = "none" THEN NoResp
         ELSE LET request == SummarizeRequest(raw)
                  r == generate_answer(request.query, request.language,
                                       request.source_ids, ireply)
              IN  IF ~r.awaiting THEN summarize_answer_handler(request, r).resp
                  ELSE IF greply.kind = "none" THEN NoResp
                  ELSE summarize_answer_handler(request,
                                                generate_answer_resume(greply)).resp
    ELSE IF ChatQueryCheck(ChatRequest(raw)).status # 0
    THEN ChatQueryCheck(ChatRequest(raw))
    ELSE IF ireply.kind = "none" THEN NoResp
    ELSE LET request == ChatRequest(raw)
             r == ChatService_chat(request.query, request.limit, ireply)
         IN  IF ~r.awaiting THEN chat_handler(r).resp
             ELSE IF greply.kind = "none" THEN NoResp
             ELSE chat_handler(ChatService_chat_resume(
                      request.query,
                      MeilisearchClient_search(request.query, 0, ireply).value,
                      greply)).resp

\* everything slot s holds
SlotState(s) ==
    <<pc[s], req[s], resp[s], calls[s], logs[s], caught[s], indexReply[s], genReply[s]>>

\* C22: with requests to /api/search, /api/summarize and /chat in flight at
\* the same time and their steps interleaved in any order, (1) the response
\* of every finished request is the one the handlers give to that request
\* served alone with the same backend replies (up to the freshly drawn id of
\* a search response), (2) a 200 response of /api/summarize carries the
\* query_id of its own request and the fallback or the text generated for
\* its own call, and (3) a step of one request leaves everything the other
\* requests hold unchanged.
C22_RequestsIsolated ==
    /\ [](\A s \in Slots :
            pc[s] = "done" =>
              /\ \E uuid \in Uuids :
                    resp[s] = ResponseFor(req[s], indexReply[s], genReply[s], uuid)
              /\ (req[s].endpoint = "summarize" /\ resp[s].status = 200) =>
                    /\ resp[s].body.query_id = req[s].query_id
                    /\ resp[s].body.answer =
                         IF genReply[s].kind = "text" THEN strip(genReply[s].text)
                         ELSE FallbackText)
    /\ [][\A s, t \in Slots :
            (s # t /\ SlotState(s)' # SlotState(s)) => SlotState(t)' = SlotState(t)]_vars

\* two /api/summarize requests with different query ids and different
\* generated texts have both finished with 200, the one that arrived first
\* finishing last
C22_Witness ==
    /\ pc[1] = "done" /\ pc[2] = "done"
    /\ req[1].endpoint = "summarize" /\ req[2].endpoint = "summarize"
    /\ resp[1].status = 200 /\ resp[2].status = 200
    /\ req[1].query_id # req[2].query_id
    /\ genReply[1].kind = "text" /\ genReply[2].kind = "text"
    /\ genReply[1].text # genReply[2].text

\* a search, a summarize awaiting its model call: different endpoints in
\* flight together
C22_WitnessMixed ==
    /\ pc[1] = "awaiting" /\ req[1].endpoint = "summarize"
    /\ pc[2] = "done" /\ req[2].endpoint = "chat" /\ resp[2].status = 200

\* a /chat request that passed the two length checks and was handled
ChatHandled ==
    /\ req.endpoint = "chat"
    /\ pc \in {"awaiting", "done"}
    /\ indexReply.kind # "none"

C23_WitnessNoHits ==
    /\ ChatHandled /\ pc = "done" /\ resp.status = 200
    /\ indexReply.hits = <<>>
    /\ resp.body.answer = FallbackText

(* ---------------- the two context builders called directly -------------- *)
\* ContextSpec calls SummarizeService._build_context and
\* ChatService._build_context on a list of results, as a unit test does:
\* calls records the call and its argument, resp.body.value what it returned.

NumCtxDocs == 4

MaxCtxItems == 3

\* results over documents with content of 201, 200, 501 and 0 characters
CtxResults == {SearchResult([doc |-> d, score |-> ScoreScale]) : d \in 1..NumCtxDocs}

BuildContextCall(cls, sources) == [svc |-> "_build_context", cls |-> cls, sources |-> sources]

Returned(call, value) ==
    /\ pc = "idle"
    /\ pc' = "done"
    /\ calls' = <<call>>
    /\ resp' = Response(0, [value |-> value])
    /\ UNCHANGED <<req, logs, caught, indexReply, genReply>>

summarize_build_context ==
    \E sources \in SeqsUpTo(CtxResults, MaxCtxItems) :
        Returned(BuildContextCall("SummarizeService", sources),
                 SummarizeService_build_context(sources))

chat_build_context ==
    \E results \in SeqsUpTo(CtxResults, MaxCtxItems) :
        Returned(BuildContextCall("ChatService", results),
                 ChatService_build_context(results))

ContextNext ==
    \/ summarize_build_context
    \/ chat_build_context
    \/ Respond

ContextSpec == Init /\ [][ContextNext]_vars

\* a context builder has returned
ContextBuilt == pc = "done" /\ Len(calls) = 1 /\ calls[1].svc = "_build_context"

\* the block of item i of items: its numbered title line, its URL line and
\* the first 500 characters of its content, each ended by a newline
ContextBlock(cls, items, i) ==
    (IF cls = "SummarizeService"
     THEN <<"Source ", ToString(i), " (">> \o items[i].title \o L("):")
     ELSE <<"[", ToString(i), "] ">> \o items[i].title)
    \o NL \o L("URL: ") \o items[i].url
    \o NL \o SubSeq(items[i].content, 1, IF Len(items[i].content) > 500 THEN 500
                                         ELSE Len(items[i].content))
    \o NL

\* C24: SummarizeService._build_context and ChatService._build_context
\* return the empty string for an empty input and otherwise the blocks of
\* the items in input order, one per item (title, URL, at most the first
\* 500 characters of content), with one empty line between two blocks.
C24_ContextBlocks ==
    ContextBuilt =>
        LET items == calls[1].sources
            n == Len(items)
        IN  resp.body.value =
              Flatten([i \in 1..n |->
                         ContextBlock(calls[1].cls, items, i)
                         \o (IF i < n THEN NL ELSE <<>>)])

\* three items, the middle one with more than 500 characters of content
C24_Witness ==
    /\ ContextBuilt
    /\ calls[1].cls = "SummarizeService"
    /\ Len(calls[1].sources) = 3
    /\ Len(calls[1].sources[2].content) > 500
    /\ calls[1].sources[1] # calls[1].sources[3]

C24_WitnessEmpty ==
    /\ ContextBuilt
    /\ calls[1].sources = <<>>
    /\ resp.body.value = <<>>

C24_WitnessChat ==
    /\ ContextBuilt
    /\ calls[1].cls = "ChatService"
    /\ Len(calls[1].sources) = 2
    /\ Len(calls[1].sources[1].content) > 500

\* the documents whose block is in the prompt sent to the language model
DocsInPrompt ==
    {d \in Docs : Contains(GenCalls[1].prompt, L(" (") \o DocTitle(d) \o L("):"))}

\* C25: a valid /api/summarize request queries the index exactly once, with
\* the empty string and limit 100, whatever its query and language; when
\* the index answers, a requested id that is not among the hits raises no
\* error: if some requested ids match, the prompt holds the matched hits and
\* no other hit, and if none matches (the requested document is not among
\* the at most 100 hits returned) the request ends with 200 and the
\* fallback answer.
C25_RefetchAndPartialMatch ==
    (ValidSummarize /\ pc \in {"awaiting", "done"}) =>
        /\ IndexCalls = <<[svc |-> "search", query |-> <<>>, limit |-> 100]>>
        /\ indexReply.kind = "hits" =>
              /\ caught # NoExc => genReply.kind = "error"
              /\ MatchedHits # {} =>
                    /\ Len(GenCalls) = 1
                    /\ DocsInPrompt = {indexReply.hits[i].doc : i \in MatchedHits}
              /\ MatchedHits = {} =>
                    /\ pc = "done"
                    /\ resp.status = 200
                    /\ resp.body.answer = FallbackText
                    /\ Len(GenCalls) = 0

\* two ids requested, one of them of no document; the index returns the
\* other one's document and a document that was not requested
C25_Witness ==
    /\ ValidSummarize /\ pc = "done" /\ resp.status = 200
    /\ req.source_ids = <<"missing", DocId(1)>>
    /\ indexReply.kind = "hits"
    /\ {indexReply.hits[i].doc : i \in 1..Len(indexReply.hits)} = {1, 2}
    /\ DocsInPrompt = {1}
    /\ req.query # <<>> /\ req.language = "de"

\* the requested document is not among the hits the index returned
C25_WitnessOutside ==
    /\ ValidSummarize /\ pc = "done"
    /\ req.source_ids = <<DocId(2)>>
    /\ indexReply.kind = "hits" /\ indexReply.hits # <<>>
    /\ MatchedHits = {}
    /\ resp.status = 200 /\ resp.body.answer = FallbackText

\* the hits of the index's answer whose score is outside [0.0, 1.0]
OutOfRangeHits ==
    {i \in 1..Len(indexReply.hits) :
        indexReply.hits[i].score < 0 \/ indexReply.hits[i].score > ScoreScale}

\* C26: when the index answers an accepted /api/search request with at
\* least one hit whose score is outside [0.0, 1.0], the response is 503
\* "Search service unavailable" and carries no sources, not even the hits
\* whose score is in range: the score is not clamped and the hit not skipped.
C26_OutOfRangeScoreIs503 ==
    (/\ req.endpoint = "search" /\ pc = "done"
     /\ indexReply.kind = "hits" /\ OutOfRangeHits # {}) =>
        /\ resp.status = 503
        /\ resp.body = [detail |-> L("Search service unavailable")]
        /\ caught.type = "ValidationError"

\* one hit in range, one above 1.0
C26_Witness ==
    /\ req.endpoint = "search" /\ pc = "done" /\ indexReply.kind = "hits"
    /\ Len(indexReply.hits) = 2
    /\ OutOfRangeHits = {2}
    /\ indexReply.hits[2].score > ScoreScale
    /\ resp.status = 503

\* a negative score
C26_WitnessNegative ==
    /\ req.endpoint = "search" /\ pc = "done" /\ indexReply.kind = "hits"
    /\ \E i \in OutOfRangeHits : indexReply.hits[i].score < 0
    /\ resp.status = 503

\* the hits of the index's answer whose id was requested, in index order
MatchedInIndexOrder ==
    SelectSeq(indexReply.hits,
              LAMBDA h : \E k \in 1..Len(req.source_ids) : req.source_ids[k] = DocId(h.doc))

\* the prompt generate_answer builds for this request with ids as its
\* source_ids
PromptFor(ids) ==
    LET request == SummarizeRequest(req)
        r == generate_answer(request.query, request.language, ids, indexReply)
    IN  r.calls[Len(r.calls)].prompt

Reverse(s) == [i \in 1..Len(s) |-> s[Len(s) + 1 - i]]

\* C27: in a valid /api/summarize request that reaches the language model,
\* the sources of the context are the matched hits in the order the index
\* returned them, one numbered block per returned hit (a document the index
\* returned twice has two blocks) and no further block; the prompt is the
\* same with source_ids reversed and with every id of source_ids repeated.
C27_ContextFollowsIndexOrder ==
    (ValidSummarize /\ Len(GenCalls) = 1) =>
        LET m == MatchedInIndexOrder
            prompt == GenCalls[1].prompt
        IN  /\ \A k \in 1..Len(m) :
                  Contains(prompt, <<"Source ", ToString(k), " (">>
                                   \o DocTitle(m[k].doc) \o L("):"))
            /\ ~Contains(prompt, <<"Source ", ToString(Len(m) + 1), " (">>)
            /\ PromptFor(Reverse(req.source_ids)) = prompt
            /\ PromptFor(req.source_ids \o req.source_ids) = prompt

\* the ids are requested in the opposite order of the hits
C27_Witness ==
    /\ ValidSummarize /\ Len(GenCalls) = 1
    /\ req.source_ids = <<DocId(2), DocId(1)>>
    /\ Len(indexReply.hits) = 2
    /\ indexReply.hits[1].doc = 1 /\ indexReply.hits[2].doc = 2
    /\ Contains(GenCalls[1].prompt, <<"Source ", "1", " (">> \o DocTitle(1))

\* the index returned the requested document twice, the id was sent twice
C27_WitnessRepeated ==
    /\ ValidSummarize /\ Len(GenCalls) = 1
    /\ req.source_ids = <<DocId(1), DocId(1)>>
    /\ Len(indexReply.hits) = 2
    /\ indexReply.hits[1].doc = 1 /\ indexReply.hits[2].doc = 1
    /\ Contains(GenCalls[1].prompt, <<"Source ", "2", " (">> \o DocTitle(1))

\* the type names of the exceptions the two services can catch
ExceptionTypeNames ==
    {e.type : e \in Exceptions \cup GenExceptions \cup {ValidationError}}

\* the log lines that hold no client-supplied data: fixed text, a count of
\* results, the type name of an exception
DataFreeLogLines ==
    {LogLine("info", <<"Search completed: ", ToString(n), " results found">>) :
        n \in 0..MaxHits}
    \cup {LogLine("error", <<"Meilisearch error: ", t>>) : t \in ExceptionTypeNames}
    \cup {LogLine("error", <<"Summarize error: ", t>>) : t \in ExceptionTypeNames}
    \cup {LogLine("info", L("Answer generated successfully"))}

\* the request with every client-supplied field but source_ids replaced by
\* another accepted value
OtherFields ==
    [req EXCEPT !.query = <<"s", "e", "c", "r", "e", "t">>,
                !.language = IF req.language = "de" THEN "sk" ELSE "de",
                !.query_id = "other",
                !.has_limit = (req.endpoint = "search"),
                !.limit = IF req.endpoint = "search" THEN LimitMax ELSE 0]

\* the request was accepted by its request model
RequestAccepted ==
    \/ req.endpoint = "search" /\ SearchRequest(req).valid
    \/ req.endpoint = "summarize" /\ SummarizeRequest(req).valid

\* the summarize path on which no requested id matches a hit
NoMatchPath ==
    req.endpoint = "summarize" /\ indexReply.kind = "hits" /\ MatchedHits = {}

\* C28: for /api/search and /api/summarize, a request that is not accepted
\* writes no log line; an accepted one writes log lines made of fixed text,
\* a result count or an exception type name, except the one warning of the
\* summarize path on which no requested id matches, which quotes the
\* source_ids list; the log lines stay the same when query, language,
\* query_id and limit are replaced, and, off that path, when source_ids gets
\* a further id.
C28_OnlySourceIdsLogged ==
    (req.endpoint \in {"search", "summarize"} /\ pc \in {"awaiting", "done"}) =>
        IF ~RequestAccepted THEN logs = <<>>
        ELSE /\ \A i \in 1..Len(logs) :
                    \/ logs[i] \in DataFreeLogLines
                    \/ /\ NoMatchPath
                       /\ logs[i] = LogLine("warning", L("No sources found for IDs: ")
                                                       \o ReprList(req.source_ids))
             /\ logs = LogsFor(OtherFields, indexReply, genReply)
             /\ (req.endpoint = "summarize" /\ ~NoMatchPath) =>
                    logs = LogsFor([OtherFields EXCEPT !.source_ids = @ \o <<"other">>],
                                   indexReply, genReply)

\* the warning with the requested ids
C28_Witness ==
    /\ pc = "done" /\ RequestAccepted /\ NoMatchPath
    /\ req.source_ids = <<"missing", "missing">>
    /\ logs = <<LogLine("warning",
                        L("No sources found for IDs: ") \o L("[")
                        \o <<"'", "missing", "'">> \o L(", ")
                        \o <<"'", "missing", "'">> \o L("]"))>>

\* lines without client data on the other paths
C28_WitnessDataFree ==
    /\ pc = "done" /\ RequestAccepted /\ req.endpoint = "summarize"
    /\ ~NoMatchPath /\ indexReply.kind = "hits"
    /\ Len(logs) = 1 /\ logs[1] \in DataFreeLogLines

C28_WitnessSearch ==
    /\ pc = "done" /\ RequestAccepted /\ req.endpoint = "search"
    /\ req.has_limit /\ req.limit = 1 /\ Len(indexReply.hits) = 2
    /\ logs = <<LogLine("info", <<"Search completed: ", "2", " results found">>)>>

====
